---- MODULE Spec2Model ----
(***************************************************************************)
(* A model of two parts of package minecraft:                              *)
(*   - resourcePackQueue (Request, NextPack, AllDownloaded) together with  *)
(*     the chunk reassembly of downloadingPack records;                    *)
(*   - Dialer.Dial, authChain and the listenConn ingestion goroutine.      *)
(* The two parts share no state; SpecQueue and SpecDial run them apart.    *)
(***************************************************************************)
EXTENDS Integers, Sequences, FiniteSets, TLC

VARIABLES
    \* ---- resourcePackQueue ----
    packs,             \* queue.packs: the catalog, a sequence of packs
    packsToDownload,   \* queue.packsToDownload: map UUID -> pack
    currentPack,       \* queue.currentPack (NoPack for nil)
    currentOffset,     \* queue.currentOffset
    downloadingPacks,  \* queue.downloadingPacks: map UUID -> downloadingPack
    verified,          \* packs whose download completed with a matching checksum
    handedOut,         \* packs NextPack returned that have not been verified since
    qLast,             \* the last queue operation: its name, the set of identifiers or
                       \* the UUID it was given, and its results
    qPre,              \* the queue state right before the last queue operation
    served,            \* since the last Request: whether it succeeded, the catalog
                       \* packs its identifiers named, and what each NextPack returned
    \* ---- Dial / listenConn ----
    dialPc,            \* position of Dialer.Dial
    dialRet,           \* what Dial returned: [returned, conn, err, fired]
    dialer,            \* the Dialer's configuration: [Email]
    authLog,           \* the token exchanges attempted, in order, each with its outcome
    transportOpen,     \* the net.Conn that was dialed is open
    expectedIDs,       \* conn.expectedIDs
    loggedIn,          \* the handshake has completed
    connectedCh,       \* tokens in conn.connected
    closeCh,           \* tokens in conn.close
    listenPc,          \* position of the listenConn goroutine
    wire,              \* the frames the transport will still deliver to Decode
    packets,           \* listenConn's local 'packets' still to handle
    decoded,           \* all packets of the frames Decode returned, in order
    dispatched,        \* all packets handed to conn.handleIncoming, in order
    handleFailedAt,    \* Len(dispatched) when handleIncoming first failed, else 0
    loginWritten,      \* the Login packet has been written
    closeCount,        \* how often the connection went from open to closed
    callerCloses,      \* Close() calls the caller has made
    stopCause,         \* why listenConn left its loop: "read", "decode" or "handle"
    listenStarts,      \* how often listenConn was started
    hist               \* the signals fired, in the order they fired

queueVars == <<packs, packsToDownload, currentPack, currentOffset, downloadingPacks,
               verified, handedOut, qLast, qPre, served>>
dialVars == <<dialPc, dialRet, dialer, authLog, transportOpen, expectedIDs, loggedIn,
              connectedCh, closeCh, listenPc, wire, packets, decoded, dispatched,
              handleFailedAt, loginWritten, closeCount, callerCloses, listenStarts, hist,
              stopCause>>
vars == <<queueVars, dialVars>>

----------------------------------------------------------------------------
(* Bounds of the model *)

\* longest list of identifiers passed to Request
MaxRequest == 2
\* largest chunk index a peer puts in a chunk packet
MaxChunkIndex == 1
\* number of queue operations in a run
MaxQueueOps == 3

----------------------------------------------------------------------------
(* resource.Pack and the catalog *)

\* The chunk size, scaled down to two bytes so that the packs below span one
\* and two chunks.
packChunkSize == 2

Pack(u, v, d) == [uuid |-> u, version |-> v, data |-> d]
NoPack == Pack("", "", <<>>)

PackA1 == Pack("A", "1.0", <<1, 2, 3>>)
PackA2 == Pack("A", "2.0", <<4, 5, 6, 7>>)
PackB1 == Pack("B", "1.0", <<8, 9>>)

\* The catalog a queue is constructed with: it offers two versions of pack A.
Catalogs == { <<PackA1, PackA2, PackB1>> }

\* The identifiers a peer may put in a ResourcePackClientResponse. C_1.0 is in
\* no catalog.
Identifiers == {"A_1.0", "A_2.0", "B_1.0", "C_1.0"}

RECURSIVE SeqsUpTo(_, _)
SeqsUpTo(S, n) ==
    IF n = 0 THEN { <<>> }
    ELSE LET shorter == SeqsUpTo(S, n - 1)
         IN  shorter \cup { Append(s, x) : s \in shorter, x \in S }

\* The lists of identifiers a peer may request.
RequestLists == SeqsUpTo(Identifiers, MaxRequest)

UUID(pack) == pack.uuid
Version(pack) == pack.version
PackLen(pack) == Len(pack.data)

\* pack.Checksum(): a digest of the pack's bytes.
RECURSIVE Checksum(_)
Checksum(data) ==
    IF data = <<>> THEN 7
    ELSE (31 * Checksum(SubSeq(data, 1, Len(data) - 1)) + data[Len(data)]) % 251

\* pack.DataChunkCount(length)
DataChunkCount(pack, length) ==
    PackLen(pack) \div length + (IF PackLen(pack) % length # 0 THEN 1 ELSE 0)

\* The identifier of a pack on the wire.
PackIdentifier(pack) == UUID(pack) \o "_" \o Version(pack)

EmptyMap == <<>>
Range(f) == { f[k] : k \in DOMAIN f }
MapDelete(f, k) == [x \in (DOMAIN f) \ {k} |-> f[x]]
MapPut(f, k, v) == [x \in (DOMAIN f) \cup {k} |-> IF x = k THEN v ELSE f[x]]

NoErr == ""
NoInfo == [UUID |-> "", DataChunkSize |-> 0, ChunkCount |-> 0, Size |-> 0, Hash |-> 0]

----------------------------------------------------------------------------
(* resourcePackQueue.Request *)

\* The inner loop of Request: the index of the first catalog pack whose
\* identifier is packUUID, 0 if there is none.
FindPack(catalog, packUUID) ==
    LET hits == { i \in 1..Len(catalog) : PackIdentifier(catalog[i]) = packUUID }
    IN  IF hits = {} THEN 0 ELSE CHOOSE i \in hits : \A j \in hits : i <= j

\* The outer loop of Request from position i, with the map built so far.
RECURSIVE RequestLoop(_, _, _, _)
RequestLoop(catalog, ids, i, m) ==
    IF i > Len(ids) THEN [toDownload |-> m, err |-> NoErr]
    ELSE LET idx == FindPack(catalog, ids[i])
         IN  IF idx = 0
             THEN [toDownload |-> m,
                   err |-> "could not find resource pack " \o ids[i]]
             ELSE RequestLoop(catalog, ids, i + 1,
                              MapPut(m, UUID(catalog[idx]), catalog[idx]))

\* Request starts from a fresh map, whatever the queue held.
RequestResult(catalog, ids) == RequestLoop(catalog, ids, 1, EmptyMap)

QueueSnapshot ==
    [packsToDownload |-> packsToDownload, currentPack |-> currentPack,
     currentOffset |-> currentOffset, downloadingPacks |-> downloadingPacks]

QueueOpsLeft == qLast.n < MaxQueueOps

Request(ids) ==
    /\ QueueOpsLeft
    /\ LET r == RequestResult(packs, ids)
       IN  /\ packsToDownload' = r.toDownload
           /\ qLast' = [op |-> "Request", ids |-> Range(ids), err |-> r.err, ok |-> r.err = NoErr,
                        pk |-> NoInfo, n |-> qLast.n + 1, index |-> 0, bytes |-> <<>>]
    /\ qPre' = QueueSnapshot
    /\ served' = [ok |-> RequestResult(packs, ids).err = NoErr,
                  resolved |-> { packs[FindPack(packs, ids[i])] :
                                   i \in { j \in 1..Len(ids) : FindPack(packs, ids[j]) # 0 } },
                  returned |-> <<>>]
    /\ UNCHANGED <<packs, currentPack, currentOffset, downloadingPacks, verified, handedOut>>

----------------------------------------------------------------------------
(* resourcePackQueue.NextPack and AllDownloaded *)

\* Mutant: the chunk count leaves out a last, shorter chunk.
DataInfoWholeChunks(pack) ==
    [UUID |-> UUID(pack), DataChunkSize |-> packChunkSize,
     ChunkCount |-> PackLen(pack) \div packChunkSize,
     Size |-> PackLen(pack), Hash |-> Checksum(pack.data)]

\* The ResourcePackDataInfo NextPack builds for the pack it hands out.
DataInfo(pack) ==
    [UUID |-> UUID(pack), DataChunkSize |-> packChunkSize,
     ChunkCount |-> DataChunkCount(pack, packChunkSize),
     Size |-> PackLen(pack), Hash |-> Checksum(pack.data)]

\* The keys the range loop of NextPack may visit first: Go iterates a map in
\* an unspecified order.
NextPackChoices(m) == DOMAIN m

NextPack ==
    /\ QueueOpsLeft
    /\ qPre' = QueueSnapshot
    /\ IF NextPackChoices(packsToDownload) # {}
       THEN \E index \in NextPackChoices(packsToDownload) :
              LET pack == packsToDownload[index]
              IN  /\ packsToDownload' = MapDelete(packsToDownload, index)
                  /\ currentPack' = pack
                  /\ currentOffset' = 0
                  /\ handedOut' = handedOut \cup {pack}
                  /\ verified' = verified \ {pack}
                  /\ qLast' = [op |-> "NextPack", ids |-> {}, err |-> NoErr, ok |-> TRUE,
                               pk |-> DataInfo(pack), n |-> qLast.n + 1, index |-> 0,
                               bytes |-> <<>>]
                  /\ served' = [served EXCEPT !.returned = Append(@, pack)]
       ELSE /\ qLast' = [op |-> "NextPack", ids |-> {}, err |-> NoErr, ok |-> FALSE,
                         pk |-> NoInfo, n |-> qLast.n + 1, index |-> 0, bytes |-> <<>>]
            /\ served' = [served EXCEPT !.returned = Append(@, NoPack)]
            /\ UNCHANGED <<packsToDownload, currentPack, currentOffset, handedOut, verified>>
    /\ UNCHANGED <<packs, downloadingPacks>>

AllDownloaded == Cardinality(DOMAIN packsToDownload) = 0

----------------------------------------------------------------------------
(* Chunk reassembly into a downloadingPack record. The handlers live in    *)
(* conn.go; they are modelled from the design document, section 4.3.       *)

Min(a, b) == IF a < b THEN a ELSE b

\* The bytes of chunk idx of a pack, as the sender cuts them.
ChunkOf(pack, idx) ==
    SubSeq(pack.data, idx * packChunkSize + 1,
           Min((idx + 1) * packChunkSize, PackLen(pack)))

\* The same chunk damaged in transit.
Damaged(bytes) == [i \in 1..Len(bytes) |-> 0]

\* A ResourcePackDataInfo for the pack NextPack handed out opens a record.
HandleDataInfo ==
    /\ currentPack # NoPack
    /\ currentPack \in handedOut
    /\ UUID(currentPack) \notin DOMAIN downloadingPacks
    /\ LET info == DataInfo(currentPack)
       IN  downloadingPacks' =
             MapPut(downloadingPacks, info.UUID,
                    [buf |-> <<>>, chunkSize |-> info.DataChunkSize, size |-> info.Size,
                     expectedIndex |-> 0, hash |-> info.Hash, pack |-> currentPack])
    /\ qPre' = QueueSnapshot
    /\ qLast' = [op |-> "DataInfo", ids |-> {}, err |-> NoErr, ok |-> TRUE,
                 pk |-> DataInfo(currentPack), n |-> qLast.n, index |-> 0, bytes |-> <<>>]
    /\ UNCHANGED <<packs, packsToDownload, currentPack, currentOffset, verified, handedOut,
                   served>>

\* Mutant: a chunk is taken when its index is not behind the expected one.
ChunkNotBehind(dp, idx) == idx >= dp.expectedIndex

\* A chunk is in order when it carries the record's next-expected index.
ChunkInOrder(dp, idx) == idx = dp.expectedIndex

\* The record after a chunk with the expected index was appended.
AcceptChunk(dp, bytes) ==
    [dp EXCEPT !.buf = dp.buf \o bytes, !.expectedIndex = dp.expectedIndex + 1]

\* A ResourcePackChunkData for pack uuid with chunk index idx.
HandleChunkData(uuid, idx, intact) ==
    /\ uuid \in DOMAIN downloadingPacks
    /\ qPre' = QueueSnapshot
    /\ LET dp == downloadingPacks[uuid]
           bytes == IF intact THEN ChunkOf(dp.pack, idx) ELSE Damaged(ChunkOf(dp.pack, idx))
           last == [op |-> "ChunkData", ids |-> {uuid}, err |-> NoErr, ok |-> TRUE,
                    pk |-> NoInfo, n |-> qLast.n, index |-> idx, bytes |-> bytes]
       IN  IF ~ChunkInOrder(dp, idx)
           THEN /\ qLast' = [last EXCEPT !.err = "protocol violation", !.ok = FALSE]
                /\ UNCHANGED <<downloadingPacks, verified, handedOut, currentOffset>>
           ELSE LET next == AcceptChunk(dp, bytes)
                IN  /\ currentOffset' = IF dp.pack = currentPack
                                        THEN Len(next.buf)
                                        ELSE currentOffset
                    /\ IF Len(next.buf) >= next.size
                       THEN /\ downloadingPacks' = MapDelete(downloadingPacks, uuid)
                            /\ IF Checksum(next.buf) = next.hash
                               THEN /\ verified' = verified \cup {dp.pack}
                                    /\ handedOut' = handedOut \ {dp.pack}
                                    /\ qLast' = [last EXCEPT !.err = "verified"]
                               ELSE /\ qLast' = [last EXCEPT !.err = "corrupted transfer",
                                                             !.ok = FALSE]
                                    /\ UNCHANGED <<verified, handedOut>>
                       ELSE /\ downloadingPacks' = MapPut(downloadingPacks, uuid, next)
                            /\ qLast' = last
                            /\ UNCHANGED <<verified, handedOut>>
    /\ UNCHANGED <<packs, packsToDownload, currentPack, served>>

\* The states of section 4.3, read off the queue.
Requested(pack) == pack \in Range(packsToDownload)
Downloading(pack) == pack \in handedOut
Verified(pack) == pack \in verified

CatalogPacks == { packs[i] : i \in 1..Len(packs) }

----------------------------------------------------------------------------
InitQueue ==
    /\ packs \in Catalogs
    /\ packsToDownload = EmptyMap
    /\ currentPack = NoPack
    /\ currentOffset = 0
    /\ downloadingPacks = EmptyMap
    /\ verified = {}
    /\ handedOut = {}
    /\ qLast = [op |-> "none", ids |-> {}, err |-> NoErr, ok |-> TRUE, pk |-> NoInfo,
                n |-> 0, index |-> 0, bytes |-> <<>>]
    /\ qPre = [packsToDownload |-> EmptyMap, currentPack |-> NoPack, currentOffset |-> 0,
               downloadingPacks |-> EmptyMap]
    /\ served = [ok |-> FALSE, resolved |-> {}, returned |-> <<>>]

NextQueue ==
    \/ \E ids \in RequestLists : Request(ids) /\ UNCHANGED dialVars
    \/ NextPack /\ UNCHANGED dialVars
    \/ HandleDataInfo /\ UNCHANGED dialVars
    \/ \E uuid \in DOMAIN downloadingPacks, idx \in 0..MaxChunkIndex, intact \in BOOLEAN :
          HandleChunkData(uuid, idx, intact) /\ UNCHANGED dialVars

----------------------------------------------------------------------------
(* The transport and the packets a server sends *)

\* longest sequence of frames the transport delivers in a run
MaxFrames == 2
\* number of Close() calls the caller makes on a Conn that Dial returned
MaxCallerCloses == 2

IDServerToClientHandshake == "ServerToClientHandshake"
IDPlayStatus == "PlayStatus"
IDText == "Text"

\* What a frame may decode to. A packet is 'bad' when its handling fails
\* whatever the state of the connection (a play status that rejects the login).
PkHandshake == [id |-> IDServerToClientHandshake, bad |-> FALSE]
PkPlayStatus == [id |-> IDPlayStatus, bad |-> FALSE]
PkRejected == [id |-> IDPlayStatus, bad |-> TRUE]
PkText == [id |-> IDText, bad |-> FALSE]

FramePayloads ==
    { <<>>, <<PkHandshake>>, <<PkPlayStatus>>, <<PkRejected>>, <<PkText>>,
      <<PkHandshake, PkText>>, <<PkText, PkHandshake>> }

\* A frame is data that decodes to packets, data that does not decode, or the
\* end of the stream (the transport was severed).
Frames ==
    { [kind |-> "data", pks |-> p] : p \in FramePayloads }
      \cup { [kind |-> "corrupt", pks |-> <<>>], [kind |-> "eof", pks |-> <<>>] }

\* Packets get the number of their frame and their place in it, so that two
\* packets on the wire are never equal.
Stamp(frames) ==
    [i \in 1..Len(frames) |->
        [frames[i] EXCEPT !.pks =
            [j \in 1..Len(frames[i].pks) |->
                [frame |-> i, pos |-> j, id |-> frames[i].pks[j].id,
                 bad |-> frames[i].pks[j].bad]]]]

Scripts == { Stamp(f) : f \in SeqsUpTo(Frames, MaxFrames) }

----------------------------------------------------------------------------
(* Dialer.Dial, authChain and listenConn *)

\* What Dial returned, with the signals that had fired by then.
NoReturn == [returned |-> FALSE, conn |-> FALSE, err |-> NoErr, fired |-> <<>>]
Return(conn, err) == [returned |-> TRUE, conn |-> conn, err |-> err, fired |-> hist]

\* The state before Dial is called with this configuration, on a transport
\* that will deliver these frames.
DialStart(email, frames) ==
    /\ dialPc = "transport"
    /\ dialRet = NoReturn
    /\ dialer = [Email |-> email]
    /\ authLog = <<>>
    /\ transportOpen = FALSE
    /\ expectedIDs = {}
    /\ loggedIn = FALSE
    /\ connectedCh = 0
    /\ closeCh = 0
    /\ listenPc = "idle"
    /\ wire = frames
    /\ packets = <<>>
    /\ decoded = <<>>
    /\ dispatched = <<>>
    /\ handleFailedAt = 0
    /\ loginWritten = FALSE
    /\ closeCount = 0
    /\ callerCloses = 0
    /\ listenStarts = 0
    /\ stopCause = ""
    /\ hist = <<>>

Emails == {"", "some@email.address"}

InitDial == \E email \in Emails, frames \in Scripts : DialStart(email, frames)

\* ---- authChain ----

StageLive == "Live token"
StageXSTS == "XSTS token"
StageChain == "Minecraft auth chain"

Attempt(stage, ok) == [stage |-> stage, ok |-> ok]

\* Mutant: the error of RequestXSTSToken is dropped and the chain requested
\* with the token it returned.
AuthChainIgnoresXSTS(liveOk, xstsOk, chainOk) ==
    IF ~liveOk
    THEN [chain |-> "", err |-> "error obtaining " \o StageLive,
          log |-> <<Attempt(StageLive, FALSE)>>]
    ELSE IF ~chainOk
    THEN [chain |-> "", err |-> "error obtaining " \o StageChain,
          log |-> <<Attempt(StageLive, TRUE), Attempt(StageXSTS, xstsOk),
                    Attempt(StageChain, FALSE)>>]
    ELSE [chain |-> "chain", err |-> NoErr,
          log |-> <<Attempt(StageLive, TRUE), Attempt(StageXSTS, xstsOk),
                    Attempt(StageChain, TRUE)>>]

\* authChain, given what each of the three token exchanges would answer:
\* the chain, the error and the exchanges made.
AuthChain(liveOk, xstsOk, chainOk) ==
    IF ~liveOk
    THEN [chain |-> "", err |-> "error obtaining " \o StageLive,
          log |-> <<Attempt(StageLive, FALSE)>>]
    ELSE IF ~xstsOk
    THEN [chain |-> "", err |-> "error obtaining " \o StageXSTS,
          log |-> <<Attempt(StageLive, TRUE), Attempt(StageXSTS, FALSE)>>]
    ELSE IF ~chainOk
    THEN [chain |-> "", err |-> "error obtaining " \o StageChain,
          log |-> <<Attempt(StageLive, TRUE), Attempt(StageXSTS, TRUE),
                    Attempt(StageChain, FALSE)>>]
    ELSE [chain |-> "chain", err |-> NoErr,
          log |-> <<Attempt(StageLive, TRUE), Attempt(StageXSTS, TRUE),
                    Attempt(StageChain, TRUE)>>]

\* ---- Conn.Close, modelled from the design document ----

\* conn.close holds at most one token.
CloseCapacity == 1

\* The connection is observed as closed while a token sits in conn.close.
ObservedClosed == closeCh > 0

\* Close(): a no-op on a closed connection, else it posts the closed signal
\* and closes the transport.
ConnClose ==
    IF ObservedClosed
    THEN UNCHANGED <<closeCh, transportOpen, closeCount, hist>>
    ELSE /\ closeCh' = closeCh + 1
         /\ transportOpen' = FALSE
         /\ closeCount' = closeCount + 1
         /\ hist' = Append(hist, "closed")

\* ---- Dialer.Dial ----

\* raknet.Dial / net.Dial, and the return on its error.
DialTransport ==
    /\ dialPc = "transport"
    /\ \E ok \in BOOLEAN :
          IF ok
          THEN /\ transportOpen' = TRUE
               /\ dialPc' = "auth"
               /\ UNCHANGED dialRet
          ELSE /\ dialPc' = "done"
               /\ dialRet' = Return(FALSE, "dial error")
               /\ UNCHANGED transportOpen
    /\ UNCHANGED <<dialer, authLog, expectedIDs, loggedIn, connectedCh, closeCh, listenPc,
                   wire, packets, decoded, dispatched, handleFailedAt, loginWritten,
                   closeCount, callerCloses, listenStarts, hist, stopCause>>

\* The key is generated, and authChain is called if an Email is set.
DialAuth ==
    /\ dialPc = "auth"
    /\ IF dialer.Email # ""
       THEN \E liveOk \in BOOLEAN, xstsOk \in BOOLEAN, chainOk \in BOOLEAN :
              LET r == AuthChain(liveOk, xstsOk, chainOk)
              IN  /\ authLog' = r.log
                  /\ IF r.err # NoErr
                     THEN dialPc' = "done" /\ dialRet' = Return(FALSE, r.err)
                     ELSE dialPc' = "newConn" /\ UNCHANGED dialRet
       ELSE dialPc' = "newConn" /\ UNCHANGED <<authLog, dialRet>>
    /\ UNCHANGED <<dialer, transportOpen, expectedIDs, loggedIn, connectedCh, closeCh,
                   listenPc, wire, packets, decoded, dispatched, handleFailedAt,
                   loginWritten, closeCount, callerCloses, listenStarts, hist, stopCause>>

\* newConn, the client data and conn.expect(...).
DialNewConn ==
    /\ dialPc = "newConn"
    /\ expectedIDs' = {IDServerToClientHandshake, IDPlayStatus}
    /\ dialPc' = "go"
    /\ UNCHANGED <<dialRet, dialer, authLog, transportOpen, loggedIn, connectedCh, closeCh,
                   listenPc, wire, packets, decoded, dispatched, handleFailedAt,
                   loginWritten, closeCount, callerCloses, listenStarts, hist, stopCause>>

\* Mutant: Dial goes on to write the login without starting listenConn.
DialGoListenSkipped ==
    /\ dialPc = "go"
    /\ dialPc' = "write"
    /\ UNCHANGED <<dialRet, dialer, authLog, transportOpen, expectedIDs, loggedIn,
                   connectedCh, closeCh, wire, packets, decoded, dispatched,
                   handleFailedAt, loginWritten, closeCount, callerCloses, hist,
                   stopCause, listenPc, listenStarts>>

\* go listenConn(conn, dialer.ErrorLog)
DialGoListen ==
    /\ dialPc = "go"
    /\ listenPc' = "decode"
    /\ listenStarts' = listenStarts + 1
    /\ dialPc' = "write"
    /\ UNCHANGED <<dialRet, dialer, authLog, transportOpen, expectedIDs, loggedIn,
                   connectedCh, closeCh, wire, packets, decoded, dispatched,
                   handleFailedAt, loginWritten, closeCount, callerCloses, hist,
                   stopCause>>

\* conn.WritePacket(&packet.Login{...}), and the return on its error.
DialWriteLogin ==
    /\ dialPc = "write"
    /\ \E ok \in BOOLEAN :
          IF ok
          THEN /\ loginWritten' = TRUE
               /\ dialPc' = "select"
               /\ UNCHANGED dialRet
          ELSE /\ dialPc' = "done"
               /\ dialRet' = Return(FALSE, "write error")
               /\ UNCHANGED loginWritten
    /\ UNCHANGED <<dialer, authLog, transportOpen, expectedIDs, loggedIn, connectedCh,
                   closeCh, listenPc, wire, packets, decoded, dispatched, handleFailedAt,
                   closeCount, callerCloses, listenStarts, hist, stopCause>>

\* Mutant: the select statement has no case for conn.close.
CloseNeverReady == FALSE

\* The cases of the select statement that are ready. Go picks one of the ready
\* cases at random.
ConnectedReady == connectedCh > 0
CloseReady == closeCh > 0

\* case <-conn.connected
DialSelectConnected ==
    /\ dialPc = "select"
    /\ ConnectedReady
    /\ connectedCh' = connectedCh - 1
    /\ dialPc' = "done"
    /\ dialRet' = Return(TRUE, NoErr)
    /\ UNCHANGED <<dialer, authLog, transportOpen, expectedIDs, loggedIn, closeCh,
                   listenPc, wire, packets, decoded, dispatched, handleFailedAt,
                   loginWritten, closeCount, callerCloses, listenStarts, hist, stopCause>>

\* case <-conn.close
DialSelectClose ==
    /\ dialPc = "select"
    /\ CloseReady
    /\ closeCh' = closeCh - 1
    /\ dialPc' = "repost"
    /\ UNCHANGED <<dialRet, dialer, authLog, transportOpen, expectedIDs, loggedIn,
                   connectedCh, listenPc, wire, packets, decoded, dispatched,
                   handleFailedAt, loginWritten, closeCount, callerCloses, listenStarts,
                   hist, stopCause>>

\* Mutant: the timeout return hands out the Conn with the error.
TimeoutReturnWithConn == Return(TRUE, "connection timeout")

\* return nil, fmt.Errorf("connection timeout")
TimeoutReturn == Return(FALSE, "connection timeout")

\* Mutant: Dial consumes the closed signal and does not post it again.
DialRepostOmitted ==
    /\ dialPc = "repost"
    /\ dialPc' = "done"
    /\ dialRet' = TimeoutReturn
    /\ UNCHANGED <<dialer, authLog, transportOpen, expectedIDs, loggedIn, connectedCh,
                   closeCh, listenPc, wire, packets, decoded, dispatched, handleFailedAt,
                   loginWritten, closeCount, callerCloses, listenStarts, hist, stopCause>>

\* conn.close <- true, which waits while the channel is full, and the return
\* of the timeout error.
DialRepost ==
    /\ dialPc = "repost"
    /\ closeCh < CloseCapacity
    /\ closeCh' = closeCh + 1
    /\ dialPc' = "done"
    /\ dialRet' = TimeoutReturn
    /\ UNCHANGED <<dialer, authLog, transportOpen, expectedIDs, loggedIn, connectedCh,
                   listenPc, wire, packets, decoded, dispatched, handleFailedAt,
                   loginWritten, closeCount, callerCloses, listenStarts, hist, stopCause>>

\* ---- listenConn ----

\* conn.handleIncoming, modelled from the design document, section 4.2: it
\* fails on a packet that is not acceptable before the handshake completed,
\* and on a packet whose handling fails.
HandleIncomingFails(data) ==
    \/ ~loggedIn /\ data.id \notin expectedIDs
    \/ data.bad

\* The handshake acknowledgement completes the handshake and fires connected.
CompletesHandshake(data) ==
    ~HandleIncomingFails(data) /\ ~loggedIn /\ data.id = IDServerToClientHandshake

\* packets, err := conn.decoder.Decode(): it waits for a frame while the
\* transport is open, and fails on a closed or severed transport and on a
\* frame that does not decode.
ListenDecode ==
    /\ listenPc = "decode"
    /\ ~transportOpen \/ wire # <<>>
    /\ IF transportOpen /\ Head(wire).kind = "data"
       THEN /\ packets' = Head(wire).pks
            /\ decoded' = decoded \o Head(wire).pks
            /\ wire' = Tail(wire)
            /\ listenPc' = IF Head(wire).pks = <<>> THEN "decode" ELSE "handle"
            /\ UNCHANGED stopCause
       ELSE /\ listenPc' = "closing"
            /\ stopCause' = IF transportOpen /\ Head(wire).kind = "corrupt"
                            THEN "decode" ELSE "read"
            /\ wire' = IF transportOpen THEN Tail(wire) ELSE wire
            /\ UNCHANGED <<packets, decoded>>
    /\ UNCHANGED <<dialPc, dialRet, dialer, authLog, transportOpen, expectedIDs, loggedIn,
                   connectedCh, closeCh, dispatched, handleFailedAt, loginWritten,
                   closeCount, callerCloses, listenStarts, hist>>

\* Mutant: the loop walks the packets of a frame from the back.
PickPacketLast(pks) == pks[Len(pks)]

\* The packet the range loop hands to handleIncoming next, and what is left.
PickPacket(pks) == Head(pks)
RestPackets(pks) == Tail(pks)

\* Mutant: the loop logs the error of handleIncoming and goes on.
AfterHandleGoesOn(failed, rest) ==
    IF rest = <<>> THEN "decode" ELSE "handle"

\* Where listenConn goes after handleIncoming returned.
AfterHandle(failed, rest) ==
    IF failed THEN "closing" ELSE IF rest = <<>> THEN "decode" ELSE "handle"

\* One iteration of 'for _, data := range packets'.
ListenHandle ==
    /\ listenPc = "handle"
    /\ LET data == PickPacket(packets)
           failed == HandleIncomingFails(data)
       IN  /\ dispatched' = Append(dispatched, data)
           /\ listenPc' = AfterHandle(failed, RestPackets(packets))
           /\ packets' = IF listenPc' = "closing" THEN <<>> ELSE RestPackets(packets)
           /\ handleFailedAt' = IF failed /\ handleFailedAt = 0
                                THEN Len(dispatched) + 1 ELSE handleFailedAt
           /\ stopCause' = IF listenPc' = "closing" THEN "handle" ELSE stopCause
           /\ IF CompletesHandshake(data)
              THEN /\ loggedIn' = TRUE
                   /\ connectedCh' = connectedCh + 1
                   /\ hist' = Append(hist, "connected")
              ELSE UNCHANGED <<loggedIn, connectedCh, hist>>
    /\ UNCHANGED <<dialPc, dialRet, dialer, authLog, transportOpen, expectedIDs, closeCh,
                   wire, decoded, loginWritten, closeCount, callerCloses, listenStarts>>

\* Mutant: listenConn returns without the deferred conn.Close().
ListenCloseNotDeferred ==
    /\ listenPc = "closing"
    /\ listenPc' = "done"
    /\ UNCHANGED <<dialPc, dialRet, dialer, authLog, expectedIDs, loggedIn, connectedCh,
                   wire, packets, decoded, dispatched, handleFailedAt, loginWritten,
                   callerCloses, listenStarts, stopCause, closeCh, transportOpen,
                   closeCount, hist>>

\* The deferred conn.Close() as listenConn returns.
ListenClose ==
    /\ listenPc = "closing"
    /\ ConnClose
    /\ listenPc' = "done"
    /\ UNCHANGED <<dialPc, dialRet, dialer, authLog, expectedIDs, loggedIn, connectedCh,
                   wire, packets, decoded, dispatched, handleFailedAt, loginWritten,
                   callerCloses, listenStarts, stopCause>>

\* ---- the caller of Dial ----

\* conn.Close() on the Conn that Dial returned.
CallerClose ==
    /\ dialRet.returned /\ dialRet.conn
    /\ callerCloses < MaxCallerCloses
    /\ ConnClose
    /\ callerCloses' = callerCloses + 1
    /\ UNCHANGED <<dialPc, dialRet, dialer, authLog, expectedIDs, loggedIn, connectedCh,
                   listenPc, wire, packets, decoded, dispatched, handleFailedAt,
                   loginWritten, listenStarts, stopCause>>

DialStep ==
    \/ DialTransport
    \/ DialAuth
    \/ DialNewConn
    \/ DialGoListen
    \/ DialWriteLogin
    \/ DialSelectConnected
    \/ DialSelectClose
    \/ DialRepost

ListenStep ==
    \/ ListenDecode
    \/ ListenHandle
    \/ ListenClose

NextDial ==
    \/ DialTransport /\ UNCHANGED queueVars
    \/ DialAuth /\ UNCHANGED queueVars
    \/ DialNewConn /\ UNCHANGED queueVars
    \/ DialGoListen /\ UNCHANGED queueVars
    \/ DialWriteLogin /\ UNCHANGED queueVars
    \/ DialSelectConnected /\ UNCHANGED queueVars
    \/ DialSelectClose /\ UNCHANGED queueVars
    \/ DialRepost /\ UNCHANGED queueVars
    \/ ListenDecode /\ UNCHANGED queueVars
    \/ ListenHandle /\ UNCHANGED queueVars
    \/ ListenClose /\ UNCHANGED queueVars
    \/ CallerClose /\ UNCHANGED queueVars

\* The queue alone, beside a Dial that is never called.
QueueInit == InitQueue /\ DialStart("", <<>>)
SpecQueue == QueueInit /\ [][NextQueue]_vars

\* Dial and listenConn, beside a queue that is never used.
DialInit == InitDial /\ InitQueue
SpecDial == DialInit /\ [][NextDial]_vars

\* The goroutines of Dial and listenConn are scheduled fairly; the caller and
\* the server owe nothing.
FairSpecDial ==
    /\ SpecDial
    /\ WF_vars(DialStep /\ UNCHANGED queueVars)
    /\ WF_vars(ListenStep /\ UNCHANGED queueVars)

----------------------------------------------------------------------------
(* Claims about the resource pack queue, checked under SpecQueue *)

Unresolvable(id) == FindPack(packs, id) = 0
AfterRequest == qLast.op = "Request"
AllDownloadedBefore == Cardinality(DOMAIN qPre.packsToDownload) = 0

\* C1: a Request whose list holds an identifier that matches no catalog pack
\* returns an error naming such an identifier and leaves the pending set, the
\* current pack, the current offset and AllDownloaded() as they were.
C1_RequestAllOrNothing ==
    (AfterRequest /\ \E id \in qLast.ids : Unresolvable(id)) =>
        /\ ~qLast.ok
        /\ \E id \in qLast.ids :
              Unresolvable(id) /\ qLast.err = "could not find resource pack " \o id
        /\ packsToDownload = qPre.packsToDownload
        /\ currentPack = qPre.currentPack
        /\ currentOffset = qPre.currentOffset
        /\ AllDownloaded = AllDownloadedBefore

\* C2: a Request whose identifiers are all in the catalog succeeds, and the
\* pending set then holds exactly one pack per distinct requested identifier.
C2_EveryIdentifierPendingOnce ==
    (AfterRequest /\ \A id \in qLast.ids : ~Unresolvable(id)) =>
        /\ qLast.ok
        /\ Cardinality(DOMAIN packsToDownload) = Cardinality(qLast.ids)
        /\ \A id \in qLast.ids :
              \E u \in DOMAIN packsToDownload : PackIdentifier(packsToDownload[u]) = id

\* C3: AllDownloaded() is true exactly when no pack of the catalog is Requested
\* or Downloading.
C3_AllDownloadedIffNoneOutstanding ==
    AllDownloaded <=> \A pack \in CatalogPacks : ~Requested(pack) /\ ~Downloading(pack)

\* C10: a chunk is appended, and the expected index advanced by one, exactly
\* when its index is the record's expected index, which starts at zero; any
\* other index is rejected as a protocol violation and changes nothing; the
\* last chunk in order with a matching checksum makes the pack Verified.
C10_ChunksInOrder ==
    /\ \A u \in DOMAIN downloadingPacks :
          LET dp == downloadingPacks[u]
          IN  /\ dp.expectedIndex >= 0
              /\ Len(dp.buf) = dp.expectedIndex * dp.chunkSize
    /\ qLast.op = "DataInfo" =>
          /\ downloadingPacks[qLast.pk.UUID].expectedIndex = 0
          /\ downloadingPacks[qLast.pk.UUID].buf = <<>>
    /\ qLast.op = "ChunkData" =>
          \A u \in qLast.ids :
            LET before == qPre.downloadingPacks[u]
                whole == before.buf \o qLast.bytes
            IN  IF qLast.index = before.expectedIndex
                THEN /\ qLast.err # "protocol violation"
                     /\ IF Len(whole) >= before.size
                        THEN /\ u \notin DOMAIN downloadingPacks
                             /\ (Checksum(whole) = before.hash) => Verified(before.pack)
                             /\ (Checksum(whole) # before.hash) =>
                                    /\ verified = {p \in verified : p # before.pack}
                                    /\ qLast.err = "corrupted transfer"
                        ELSE /\ u \in DOMAIN downloadingPacks
                             /\ downloadingPacks[u].buf = whole
                             /\ downloadingPacks[u].expectedIndex = before.expectedIndex + 1
                ELSE /\ ~qLast.ok
                     /\ qLast.err = "protocol violation"
                     /\ downloadingPacks = qPre.downloadingPacks

\* C10 witness: both chunks of the three byte pack A_1.0 arrived in order and
\* the pack is Verified.
C10_Witness ==
    /\ qLast.op = "ChunkData"
    /\ qLast.index = 1
    /\ qLast.err = "verified"
    /\ Verified(PackA1)

----------------------------------------------------------------------------
(* Claims about Dial and listenConn, checked under SpecDial *)

IsPrefix(s, t) == Len(s) <= Len(t) /\ s = SubSeq(t, 1, Len(s))

ConnectedFired == \E i \in DOMAIN hist : hist[i] = "connected"
ClosedFired == \E i \in DOMAIN hist : hist[i] = "closed"

\* Dial has returned, and of the signals fired by then this one was the first.
ReturnedAfterFirst(signal) ==
    dialRet.returned /\ dialRet.fired # <<>> /\ dialRet.fired[1] = signal

\* C4 as stated: if closed fired before connected ever did, Dial returns nil
\* and the "connection timeout" error.
C4_ClosedFirstIsTimeout ==
    ReturnedAfterFirst("closed") =>
        ~dialRet.conn /\ dialRet.err = "connection timeout"

\* C4 as amended: if closed fired before connected ever did, Dial returns no
\* Conn and an error: "connection timeout" when the Login packet was
\* written, the error of WritePacket when it was not.
C4_ClosedFirstIsError ==
    ReturnedAfterFirst("closed") =>
        /\ ~dialRet.conn
        /\ dialRet.err = IF loginWritten THEN "connection timeout" ELSE "write error"

\* C4 witness: the transport was severed before any packet arrived and Dial
\* returned the timeout error from its wait.
C4_Witness ==
    /\ ReturnedAfterFirst("closed")
    /\ loginWritten
    /\ dispatched = <<>>
    /\ dialRet.err = "connection timeout"

\* C5: if Dial reached its wait and connected fired before closed, Dial
\* returns the Conn and no error, also when both had fired before the wait.
C5_ConnectedFirstIsSuccess ==
    (ReturnedAfterFirst("connected") /\ loginWritten) =>
        dialRet.conn /\ dialRet.err = NoErr

\* C6: however the ingestion task, Dial and the caller trigger the closing,
\* the connection goes from open to closed once; later triggers change
\* nothing, the closed signal is never posted twice, and neither Close() nor
\* the re-post of Dial can be left waiting on a full channel.
C6_CloseIdempotent ==
    /\ closeCount <= 1
    /\ closeCh <= CloseCapacity
    /\ hist \in {<<>>, <<"connected">>, <<"closed">>, <<"connected", "closed">>}
    /\ (callerCloses > 0 \/ listenPc = "done") =>
          closeCount = 1 /\ ~transportOpen /\ ClosedFired
    /\ dialPc = "repost" => closeCh < CloseCapacity
    /\ (closeCount = 1 /\ dialPc # "repost") => closeCh = 1

\* C6 witness: the ingestion task has closed the connection and the caller
\* has called Close() twice.
C6_Witness ==
    /\ callerCloses = 2
    /\ listenPc = "done"
    /\ closeCount = 1

\* C7: once the Login packet is written, if the ingestion task stops or the
\* connection is closed while connected has not fired, Dial returns.
C7_DialReturns ==
    (/\ loginWritten
     /\ ~ConnectedFired
     /\ (listenPc \in {"closing", "done"} \/ ClosedFired)) ~> dialRet.returned

\* C7 witness: Dial waits in its select while the ingestion task has stopped
\* and connected never fired.
C7_Witness ==
    /\ dialPc = "select"
    /\ listenPc = "done"
    /\ ~ConnectedFired

\* C8: the packets handed to handleIncoming are, in order, the packets of
\* the frames decoded so far, all of them once the loop is back at Decode;
\* after a handling failure nothing more is handed over.
C8_WireOrder ==
    /\ IsPrefix(dispatched, decoded)
    /\ listenPc = "decode" => dispatched = decoded
    /\ listenPc = "handle" => dispatched \o packets = decoded
    /\ handleFailedAt # 0 => Len(dispatched) = handleFailedAt
    /\ \A i, j \in DOMAIN dispatched :
          i < j => \/ dispatched[i].frame < dispatched[j].frame
                   \/ /\ dispatched[i].frame = dispatched[j].frame
                      /\ dispatched[i].pos < dispatched[j].pos

\* C8 witness: two frames of two packets each were dispatched whole.
C8_Witness ==
    /\ Len(dispatched) = 4
    /\ dispatched = decoded
    /\ dispatched[2].frame = 1
    /\ dispatched[3].frame = 2

\* C9: with an Email set, a failed token exchange makes Dial return nil and
\* the error of that exchange; no later exchange is made, listenConn is not
\* started and no Login packet is written.
C9_AuthFailureAborts ==
    (\E i \in DOMAIN authLog : ~authLog[i].ok) =>
        /\ dialer.Email # ""
        /\ ~authLog[Len(authLog)].ok
        /\ \A i \in 1..(Len(authLog) - 1) : authLog[i].ok
        /\ IsPrefix([i \in DOMAIN authLog |-> authLog[i].stage],
                    <<StageLive, StageXSTS, StageChain>>)
        /\ dialRet.returned
        /\ ~dialRet.conn
        /\ dialRet.err = "error obtaining " \o authLog[Len(authLog)].stage
        /\ listenStarts = 0
        /\ listenPc = "idle"
        /\ ~loginWritten

\* C9 witness: the XSTS exchange failed after the Live exchange succeeded.
C9_Witness ==
    /\ Len(authLog) = 2
    /\ ~authLog[2].ok
    /\ dialRet.returned

----------------------------------------------------------------------------
(* The queue between two Requests *)

\* The NextPack calls made since the last Request, when that Request succeeded.
CallsSinceRequest == IF served.ok THEN 1..Len(served.returned) ELSE {}

\* C11: after a successful Request that resolved n distinct packs, each of the
\* next n NextPack calls returns a different one of those packs, and every
\* later call, until another Request, returns none.
C11_EachResolvedPackOnce ==
    \A k \in CallsSinceRequest :
        IF k <= Cardinality(served.resolved)
        THEN /\ served.returned[k] \in served.resolved
             /\ \A j \in 1..(k - 1) : served.returned[j] # served.returned[k]
        ELSE served.returned[k] = NoPack

\* C12: only one resource pack is downloaded at a time: at most one pack is in
\* the Downloading state, and NextPack hands out no second pack while the
\* current one is unfinished.
C12_OneDownloadAtATime ==
    Cardinality({ pack \in CatalogPacks : Downloading(pack) }) <= 1

AfterNextPack == qLast.op = "NextPack"

\* c is the number of chunks of the given size that hold size bytes.
IsCeilingOf(c, size, chunkSize) ==
    /\ c * chunkSize >= size
    /\ (c - 1) * chunkSize < size

\* C13: a NextPack that returns ok=true removes exactly the returned pack from
\* the pending set, makes it the current pack at offset 0 and returns that
\* pack's UUID, the chunk size, its size, its checksum and the ceiling of
\* size / chunk size as chunk count; a NextPack that returns ok=false leaves
\* the current pack and the current offset as they were.
C13_NextPackContract ==
    AfterNextPack =>
        IF qLast.ok
        THEN \E index \in DOMAIN qPre.packsToDownload :
                LET pack == qPre.packsToDownload[index]
                IN  /\ DOMAIN packsToDownload = DOMAIN qPre.packsToDownload \ {index}
                    /\ \A other \in DOMAIN packsToDownload :
                          packsToDownload[other] = qPre.packsToDownload[other]
                    /\ currentPack = pack
                    /\ currentOffset = 0
                    /\ qLast.pk.UUID = UUID(pack)
                    /\ qLast.pk.DataChunkSize = packChunkSize
                    /\ qLast.pk.Size = PackLen(pack)
                    /\ qLast.pk.Hash = Checksum(pack.data)
                    /\ IsCeilingOf(qLast.pk.ChunkCount, PackLen(pack), packChunkSize)
        ELSE /\ qLast.pk = NoInfo
             /\ currentPack = qPre.currentPack
             /\ currentOffset = qPre.currentOffset

\* NextPack handed out a pack whose last chunk is short, while the previous
\* current pack stood at a positive offset.
C13_Witness ==
    /\ AfterNextPack
    /\ qLast.ok
    /\ qPre.currentOffset > 0
    /\ PackLen(currentPack) % packChunkSize # 0

\* The catalog packs the identifiers of the last Request name.
MatchingPacks == { pack \in CatalogPacks : PackIdentifier(pack) \in qLast.ids }

\* C19: a successful Request replaces the pending set: afterwards exactly the
\* catalog packs matching its identifiers are pending, whatever was pending
\* before, and the current pack and the current offset are unchanged.
C19_RequestReplacesPending ==
    (qLast.op = "Request" /\ qLast.ok) =>
        /\ { pack \in CatalogPacks : Requested(pack) } = MatchingPacks
        /\ currentPack = qPre.currentPack
        /\ currentOffset = qPre.currentOffset

----------------------------------------------------------------------------
(* The ingestion goroutine and the connection it serves *)

ListenStopped == listenPc \in {"closing", "done"}
ListenDead == listenPc = "done"
ConnClosed == closeCount >= 1 /\ ~transportOpen

\* C14: the ingestion task is started once and never again, it leaves its loop
\* only on a read error, a decode error or a handling error, and once it has
\* returned the connection has been closed: it is never dead beside an open
\* connection.
C14_NoPartialShutdown ==
    /\ listenStarts <= 1
    /\ listenStarts = 0 <=> listenPc = "idle"
    /\ IF ListenStopped
       THEN stopCause \in {"read", "decode", "handle"}
       ELSE stopCause = ""
    /\ stopCause = "handle" => handleFailedAt = Len(dispatched)
    /\ ListenDead => ConnClosed

\* The task has returned after a handling error while Dial is still waiting.
C14_Witness ==
    /\ ListenDead
    /\ stopCause = "handle"
    /\ dialPc = "select"

ListenStarted == listenStarts = 1 /\ listenPc # "idle"
LoginAttempted == loginWritten \/ (dialRet.returned /\ dialRet.err = "write error")

\* C15: the ingestion task is started before Dial writes the login packet, so
\* whatever the server sends in response is read by that task: Dial is at the
\* write, or past it, only with the task started, and frames are decoded and
\* packets handled by the started task alone.
C15_ListenBeforeLogin ==
    /\ (dialPc = "write" \/ LoginAttempted) => ListenStarted
    /\ (decoded # <<>> \/ dispatched # <<>>) => ListenStarted

\* The login is written and the task has handled a packet of the server.
C15_Witness ==
    /\ loginWritten
    /\ dispatched # <<>>
    /\ dialPc = "select"

----------------------------------------------------------------------------
(* The handshake window *)

AllowList == {IDServerToClientHandshake, IDPlayStatus}

\* The i-th packet handed to handleIncoming arrived before the handshake
\* completed and carries an ID outside the allow-list.
UnexpectedAt(i) ==
    /\ dispatched[i].id \notin AllowList
    /\ \A j \in 1..(i - 1) :
          dispatched[j].id = IDServerToClientHandshake => dispatched[j].bad

\* C16: from the start of the ingestion task until the handshake completes the
\* allow-list is the handshake acknowledgement and play-status, registered
\* before the task starts; a packet with another ID in that window is fatal:
\* it is the last packet handled, the task stops and closes the connection,
\* connected never fires and Dial returns an error and no Conn.
C16_UnexpectedPacketIsFatal ==
    /\ (listenPc # "idle" /\ ~loggedIn) => expectedIDs = AllowList
    /\ \A i \in 1..Len(dispatched) :
          UnexpectedAt(i) =>
              /\ i = Len(dispatched)
              /\ handleFailedAt = i
              /\ ListenStopped
              /\ stopCause = "handle"
              /\ ListenDead => ConnClosed
              /\ ~ConnectedFired
              /\ dialRet.returned => (~dialRet.conn /\ dialRet.err # NoErr)

\* A text packet arrived before the handshake, the task has closed the
\* connection and Dial has returned its error.
C16_Witness ==
    /\ dispatched # <<>>
    /\ UnexpectedAt(Len(dispatched))
    /\ ListenDead
    /\ dialRet.returned
    /\ dialRet.err = "connection timeout"

----------------------------------------------------------------------------
(* Observing the closed signal *)

\* C17: the closed signal is not lost to its waiters: once it has fired the
\* connection is observed as closed from then on, also after Dial took the
\* signal on its failure path, and it never appears open again.
C17_ClosedStaysObservable == ClosedFired => ObservedClosed

----------------------------------------------------------------------------
(* What a failed Dial leaves behind *)

\* Dial returned an error after the transport had been dialed.
FailedAfterTransport ==
    /\ dialRet.returned
    /\ dialRet.err \notin {NoErr, "dial error"}

\* C18: a failed Dial leaks nothing: when it returns an error after the
\* transport was dialed, that transport is closed and no ingestion task is
\* left running.
C18_FailedDialLeaksNothing ==
    FailedAfterTransport =>
        /\ ~transportOpen
        /\ listenPc \in {"idle", "done"}
====
